---- MODULE Spec2Model ----
(***************************************************************************)
(* The cat litter reminder: per node a Peer Registry (discovery.rs), a     *)
(* Synchronization Channel (transport.rs) and the Reminder loop            *)
(* (reminder.rs), connected by two mpsc queues, and the nodes connected by *)
(* UDP datagrams carrying protocol.rs messages.                            *)
(*                                                                         *)
(* Time is counted in units of BLINK_DELAY (500 ms); a timestamp is the    *)
(* number of units since the UTC midnight of the first modelled day.       *)
(***************************************************************************)
EXTENDS Integers, Sequences, FiniteSets, TLC

VARIABLES
    \* discovery.rs, browse thread
    lan,                    \* what the LAN advertises: the ServiceInfos to resolve
    cat_reminder_instances, \* [node -> [full name -> address vector]]
    registry_pc,            \* "running" | "done" | "panicked"
    \* transport.rs, listener thread
    rx,                     \* Receiver<TransportEvent>: FIFO of control events
    other_nodes_connections,\* [node -> [full name -> Endpoint]]
    last_modification_time,
    next_rid,               \* next resource id connect_sync hands out
    resources,              \* the connections connect_sync opened at the node's
                            \* network controller and nothing removed since
    transport_pc,           \* "running" | "stopped" | "panicked"
    sent,                   \* the datagrams the last transport handler sent
    \* the network: datagrams that arrived at a node and are not yet handled
    inbox,
    \* reminder.rs, main thread
    reminder_rx,            \* Receiver<ReminderModuleEvent>: FIFO of timestamps
    last_cleaning_time,
    is_strip_on,
    strip,                  \* the colour last written with set_all_to
    clock,                  \* the node's wall clock at its next loop iteration
    reminder_pc,            \* "running" | "done" | "panicked"
    iter,                   \* the locals of the last loop iteration, with what
                            \* the loop met: the timestamp and the strip before
                            \* it, whether the iteration before it blinked,
                            \* whether the system was settled, the presses so far
    \* main.rs, the actor-based variant of the reminder: the LedManager actor
    \* with its mailbox and its run_later timers
    led_manager,
    \* what is left of the run that is followed: per node the discovery events
    \* (disc), button presses (press) and loop iterations (iters) still to
    \* come, and the malformed datagrams (malformed), refused connects
    \* (refused) and failed sends (lost) still to come
    budget,
    \* the process-wide AtomicBool
    shutdown_flag

registryVars == <<lan, cat_reminder_instances, registry_pc>>
transportVars == <<other_nodes_connections, last_modification_time, next_rid,
                   resources, transport_pc>>
reminderVars == <<last_cleaning_time, is_strip_on, strip, clock, reminder_pc, iter,
                  led_manager>>
vars == <<lan, cat_reminder_instances, registry_pc, rx,
          other_nodes_connections, last_modification_time, next_rid,
          resources, transport_pc, sent, inbox, reminder_rx, last_cleaning_time,
          is_strip_on, strip, clock, reminder_pc, iter, led_manager, budget,
          shutdown_flag>>

----------------------------------------------------------------------------
(* Bounds of the model *)

\* discovery events delivered to one registry
MaxDisc == 1
\* button presses at one node
MaxPress == 1
\* iterations of one node's reminder loop
MaxIter == 2
\* units an iteration may take beyond its sleep
MaxJitter == 0
\* malformed datagrams arriving at one node
MaxMalformed == 1
\* connect_sync calls of one node that fail
MaxRefused == 1
\* sends of one node that fail
MaxLost == 1

----------------------------------------------------------------------------
(* Time *)

\* units per second: BLINK_DELAY is one unit
UnitsPerSec == 2
BLINK_DELAY == 1
LOOP_DELAY == 2
\* Europe/Vienna, standard time: seconds east of UTC
VIENNA_UTC_OFFSET == 3600

\* the instant (in units) at which Vienna's clocks show h:m:s on day 0
LocalInstant(h, m, s) == (h * 3600 + m * 60 + s - VIENNA_UTC_OFFSET) * UnitsPerSec

\* DateTime::hour() of an instant converted to Europe/Vienna
Hour(t) == (((t \div UnitsPerSec) + VIENNA_UTC_OFFSET) \div 3600) % 24

IsNight(t) == Hour(t) >= 22 \/ Hour(t) < 7

\* chrono::Duration::num_seconds: whole seconds, truncated toward zero
NumSeconds(d) == IF d >= 0 THEN d \div UnitsPerSec ELSE -((-d) \div UnitsPerSec)

----------------------------------------------------------------------------
(* The nodes and what the LAN advertises *)

Nodes == {1, 2}

\* rnglib instance names, as character sequences
InstanceName == (1 :> <<"k", "a">>) @@ (2 :> <<"z", "u">>)

SERVICE_TYPE == <<"_cat._udp.local.">>

\* ServiceInfo::get_fullname: "<instance>.<service type>"
FullName(name) == name \o <<".">> \o SERVICE_TYPE

NodeIp == (1 :> "ip1") @@ (2 :> "ip2")

\* a third advertisement on the LAN whose device is not one of Nodes:
\* datagrams sent to it are never answered
GhostName == <<"g", "o">>
GhostIps == {<<"ip9">>, <<"ip9", "ip8">>}

\* the node listening at an address, 0 when none of Nodes does
AddrOwner(a) == IF \E n \in Nodes : NodeIp[n] = a
                THEN CHOOSE n \in Nodes : NodeIp[n] = a
                ELSE 0

\* what a ServiceResolved event can carry: full name and IPv4 addresses
ResolvedInfos ==
    {[fullname |-> FullName(InstanceName[m]), addresses |-> <<NodeIp[m]>>] : m \in Nodes}
    \cup {[fullname |-> FullName(GhostName), addresses |-> ips] : ips \in GhostIps}

FullNames == {i.fullname : i \in ResolvedInfos}

\* str::starts_with
StartsWith(s, p) == Len(p) <= Len(s) /\ SubSeq(s, 1, Len(p)) = p

----------------------------------------------------------------------------
(* protocol.rs: Message and its bincode encoding *)

\* Option<DateTime<Utc>> as a sequence: <<>> is None, <<t>> is Some(t)
None == <<>>
Some(t) == <<t>>

RequestState == [type |-> "RequestState"]
UpdateState(opt) == [type |-> "UpdateState", state |-> opt]

\* bincode::serialize: the variant index, then for UpdateState the Option tag
\* and, with ts_seconds_option, DateTime::timestamp(): whole epoch seconds
Serialize(msg) ==
    IF msg.type = "RequestState" THEN <<0>>
    ELSE IF msg.state = None THEN <<1, 0>>
    ELSE <<1, 1, msg.state[1] \div UnitsPerSec>>

\* bincode::deserialize returns Ok: the bytes hold a variant index of Message
\* and, for UpdateState, an Option tag and with tag 1 the seconds
WellFormed(data) ==
    /\ Len(data) >= 1
    /\ \/ data[1] = 0
       \/ /\ data[1] = 1
          /\ Len(data) >= 2
          /\ \/ data[2] = 0
             \/ data[2] = 1 /\ Len(data) >= 3

\* datagrams that do not decode: empty, an unknown variant, a missing or
\* unknown Option tag, missing seconds
MalformedData == {<<>>, <<2>>, <<1>>, <<1, 2>>, <<1, 1>>}

\* bincode::deserialize of a well-formed datagram
Deserialize(data) ==
    IF data[1] = 0 THEN RequestState
    ELSE IF data[2] = 0 THEN UpdateState(None)
    ELSE UpdateState(Some(data[3] * UnitsPerSec))

----------------------------------------------------------------------------
(* led.rs colours and reminder.rs bands *)

BLACK == "BLACK"
LIGHT_GREEN == "LIGHT_GREEN"
DARK_GREEN == "DARK_GREEN"
ORANGE == "ORANGE"
RED == "RED"

state_from_duration(duration) ==
    LET s == NumSeconds(duration) IN
    IF s >= 0 /\ s <= 7 THEN "LightGreen"
    ELSE IF s >= 8 /\ s <= 11 THEN "DarkGreen"
    ELSE IF s >= 12 /\ s <= 23 THEN "Orange"
    ELSE IF s >= 24 /\ s <= 25 THEN "Red"
    ELSE "BlinkingRed"

controller_color(state) ==
    CASE state = "LightGreen" -> LIGHT_GREEN
      [] state = "DarkGreen" -> DARK_GREEN
      [] state = "Orange" -> ORANGE
      [] state = "Red" -> RED
      [] state = "BlinkingRed" -> RED

----------------------------------------------------------------------------
(* HashMap helpers *)

EmptyMap == [k \in {} |-> 0]
Insert(m, k, v) == [x \in (DOMAIN m) \cup {k} |-> IF x = k THEN v ELSE m[x]]
Remove(m, k) == [x \in (DOMAIN m) \ {k} |-> m[x]]
\* HashMap::extend: entries of add replace those of m
Extend(m, add) == [x \in (DOMAIN m) \cup (DOMAIN add) |->
                      IF x \in DOMAIN add THEN add[x] ELSE m[x]]
\* HashMap::retain on keys
Retain(m, keep) == [x \in {k \in DOMAIN m : k \in keep} |-> m[x]]

AfterDrain(queue) == <<>>

\* mpsc Receiver::try_recv on a non-empty queue takes its oldest item: what
\* stays queued
AfterTryRecv(queue) == Tail(queue)

----------------------------------------------------------------------------
(* discovery.rs: the browse thread *)

NodeListUpdated(list) == [type |-> "NodeListUpdated", list |-> list]
CleaningTimeReset(t) == [type |-> "CleaningTimeReset", time |-> t]

\* network_tx.send(..).expect(..): the send fails, and expect panics, once the
\* transport thread has ended and dropped the receiving end
RegistrySend(n, event) ==
    IF transport_pc[n] # "running"
    THEN /\ registry_pc' = [registry_pc EXCEPT ![n] = "panicked"]
         /\ UNCHANGED rx
    ELSE /\ rx' = [rx EXCEPT ![n] = Append(@, event)]
         /\ UNCHANGED registry_pc

ServiceResolved(n, info) ==
    /\ registry_pc[n] = "running"
    /\ info \in lan
    /\ budget[n].disc > 0
    /\ budget' = [budget EXCEPT ![n].disc = @ - 1]
    /\ LET is_other_service == ~StartsWith(info.fullname, InstanceName[n]) IN
       IF is_other_service
       THEN LET table == Insert(cat_reminder_instances[n], info.fullname, info.addresses) IN
            /\ cat_reminder_instances' = [cat_reminder_instances EXCEPT ![n] = table]
            /\ RegistrySend(n, NodeListUpdated(table))
       ELSE UNCHANGED <<cat_reminder_instances, registry_pc, rx>>
    /\ sent' = <<>>
    /\ UNCHANGED <<lan, transportVars, inbox, reminder_rx, reminderVars, shutdown_flag>>

ServiceRemoved(n, removed_service_type, full_name) ==
    /\ registry_pc[n] = "running"
    /\ full_name \in {i.fullname : i \in lan}
    /\ budget[n].disc > 0
    /\ budget' = [budget EXCEPT ![n].disc = @ - 1]
    /\ IF removed_service_type = SERVICE_TYPE
       THEN LET table == Remove(cat_reminder_instances[n], full_name) IN
            /\ cat_reminder_instances' = [cat_reminder_instances EXCEPT ![n] = table]
            /\ RegistrySend(n, NodeListUpdated(table))
       ELSE UNCHANGED <<cat_reminder_instances, registry_pc, rx>>
    /\ sent' = <<>>
    /\ UNCHANGED <<lan, transportVars, inbox, reminder_rx, reminderVars, shutdown_flag>>

\* any other ServiceEvent (SearchStarted, ServiceFound, SearchStopped): the only
\* place the browse thread looks at the shutdown flag
OtherServiceEvent(n) ==
    /\ registry_pc[n] = "running"
    /\ registry_pc' = [registry_pc EXCEPT ![n] = IF shutdown_flag[n] THEN "done" ELSE @]
    /\ sent' = <<>>
    /\ UNCHANGED <<lan, cat_reminder_instances, rx, transportVars, inbox,
                   reminder_rx, reminderVars, budget, shutdown_flag>>

----------------------------------------------------------------------------
(* transport.rs: the listener thread *)

Endpoint(rid, addr) == [rid |-> rid, addr |-> addr]

Datagram(endpoint, data) == [endpoint |-> endpoint, data |-> data]

\* the datagrams of out (sent by node n) that arrive at node m; the receiver
\* sees the sender's address as the endpoint of the message
Arrivals(n, out, m) ==
    LET mine == SelectSeq(out, LAMBDA d : AddrOwner(d.endpoint.addr) = m) IN
    [i \in 1..Len(mine) |-> Datagram(Endpoint(0, NodeIp[n]), mine[i].data)]

\* out without its i-th datagram, all of out for i = 0
Without(out, i) == [j \in 1..(Len(out) - (IF i > 0 THEN 1 ELSE 0)) |->
                       IF i > 0 /\ j >= i THEN out[j + 1] ELSE out[j]]

\* handler.network().send for every datagram of out; the send of the lost-th
\* (none for 0) returns a SendStatus other than Sent, which is only logged
NetworkSend(n, out, lost) ==
    /\ lost <= Len(out)
    /\ sent' = out
    /\ inbox' = [m \in Nodes |-> inbox[m] \o Arrivals(n, Without(out, lost), m)]

\* nothing connected yet: no table entry, no opened connection
NoneConnected == [connections |-> EmptyMap, opened |-> {}]

\* connect_sync for every address of every key of keys, resource ids handed
\* out in turn; a key ends with the endpoint of its last address (collect
\* into a HashMap), and every connect_sync opened a connection (opened).  The
\* order among keys only permutes resource ids.
RECURSIVE ConnectAll(_, _, _, _)
ConnectAll(keys, list, rid, acc) ==
    IF keys = {} THEN [connections |-> acc.connections, opened |-> acc.opened, rid |-> rid]
    ELSE LET k == CHOOSE x \in keys : TRUE
             ips == list[k]
             last == rid + Len(ips) - 1
             opened == {[key |-> k, endpoint |-> Endpoint(rid + i - 1, ips[i])] :
                           i \in 1..Len(ips)}
         IN ConnectAll(keys \ {k}, list, rid + Len(ips),
                       [connections |-> IF ips = <<>> THEN acc.connections
                                        ELSE Insert(acc.connections, k,
                                                    Endpoint(last, ips[Len(ips)])),
                        opened |-> acc.opened \cup opened])

NewNodeConnectionsForAll(connections, list, rid) ==
    ConnectAll(DOMAIN list, list, rid, NoneConnected)

\* lines 70-78: the keys not yet connected, each address connected
NewNodeConnections(connections, list, rid) ==
    ConnectAll({k \in DOMAIN list : k \notin DOMAIN connections}, list, rid, NoneConnected)

\* lines 80-83: extend, then retain the keys of list
UpdatedConnections(connections, new_node_connections, list) ==
    Retain(Extend(connections, new_node_connections), DOMAIN list)

RequireStateOnAnyNew(connections, new_node_connections) ==
    Cardinality(DOMAIN new_node_connections) > 0

\* line 79
RequireState(connections, new_node_connections) ==
    Cardinality(DOMAIN connections) = 0 /\ Cardinality(DOMAIN new_node_connections) > 0

\* refused: a connect_sync of this event returns Err, and expect panics
HandleNodeListUpdated(n, list, refused, lost) ==
    LET old == other_nodes_connections[n]
        new == NewNodeConnections(old, list, next_rid[n])
        require_state == RequireState(old, new.connections)
        updated == UpdatedConnections(old, new.connections, list)
    IN IF refused
       THEN /\ new.opened # {}
            /\ NetworkSend(n, <<>>, lost)
            /\ UNCHANGED <<other_nodes_connections, next_rid, resources,
                           last_modification_time>>
       ELSE /\ other_nodes_connections' = [other_nodes_connections EXCEPT ![n] = updated]
            /\ next_rid' = [next_rid EXCEPT ![n] = new.rid]
            /\ resources' = [resources EXCEPT ![n] = @ \cup new.opened]
            /\ IF require_state /\ DOMAIN updated # {}
               THEN \E k \in DOMAIN updated :
                       NetworkSend(n, <<Datagram(updated[k], Serialize(RequestState))>>, lost)
               ELSE NetworkSend(n, <<>>, lost)
            /\ UNCHANGED last_modification_time

RECURSIVE BroadcastWithRetry(_, _, _)
BroadcastWithRetry(connections, keys, data) ==
    IF keys = {} THEN <<>>
    ELSE LET k == CHOOSE x \in keys : TRUE
         IN <<Datagram(connections[k], data), Datagram(connections[k], data)>>
                \o BroadcastWithRetry(connections, keys \ {k}, data)

\* one datagram per entry of the connection table
RECURSIVE Broadcast(_, _, _)
Broadcast(connections, keys, data) ==
    IF keys = {} THEN <<>>
    ELSE LET k == CHOOSE x \in keys : TRUE
         IN <<Datagram(connections[k], data)>> \o Broadcast(connections, keys \ {k}, data)

HandleCleaningTimeReset(n, updated_time, lost) ==
    /\ last_modification_time' = [last_modification_time EXCEPT ![n] = updated_time]
    /\ NetworkSend(n, Broadcast(other_nodes_connections[n],
                                DOMAIN other_nodes_connections[n],
                                Serialize(UpdateState(Some(updated_time)))), lost)
    /\ UNCHANGED <<other_nodes_connections, next_rid, resources>>

\* Signal::Tick.  A panic in the handler ends the listener thread; otherwise
\* the handler stops the node when the flag is set and schedules the next
\* tick when it is not.
Tick(n) ==
    /\ transport_pc[n] = "running"
    /\ \E refused \in BOOLEAN, lost \in 0..Cardinality(FullNames) :
          /\ refused => budget[n].refused > 0
          /\ lost > 0 => budget[n].lost > 0
          /\ budget' = [budget EXCEPT ![n].refused = IF refused THEN @ - 1 ELSE @,
                                       ![n].lost = IF lost > 0 THEN @ - 1 ELSE @]
          /\ IF rx[n] # <<>>
             THEN /\ rx' = [rx EXCEPT ![n] = AfterTryRecv(@)]
                  /\ IF Head(rx[n]).type = "NodeListUpdated"
                     THEN HandleNodeListUpdated(n, Head(rx[n]).list, refused, lost)
                     ELSE ~refused /\ HandleCleaningTimeReset(n, Head(rx[n]).time, lost)
             ELSE /\ ~refused
                  /\ NetworkSend(n, <<>>, lost)
                  /\ UNCHANGED <<rx, other_nodes_connections, next_rid, resources,
                                 last_modification_time>>
          /\ transport_pc' = [transport_pc EXCEPT ![n] =
                                  IF refused THEN "panicked"
                                  ELSE IF shutdown_flag[n] THEN "stopped" ELSE "running"]
    /\ UNCHANGED <<registryVars, reminder_rx, reminderVars, shutdown_flag>>

AdoptStateIfNewer(current, new_state) ==
    IF new_state # None /\ new_state[1] > current THEN new_state[1] ELSE current

\* lines 54-55: Some(timestamp) replaces last_modification_time, whatever it is
AdoptState(current, new_state) ==
    IF new_state # None THEN new_state[1] ELSE current

ReplyNone(current) == UpdateState(None)

\* line 48
Reply(current) == UpdateState(Some(current))

\* NetEvent::Message(endpoint, input_data); deserialize(..).unwrap() panics on
\* a datagram that does not decode, which ends the listener thread
Message(n) ==
    /\ transport_pc[n] = "running"
    /\ inbox[n] # <<>>
    /\ LET endpoint == Head(inbox[n]).endpoint
           input_data == Head(inbox[n]).data
           rest == [inbox EXCEPT ![n] = Tail(@)]
       IN IF ~WellFormed(input_data)
          THEN /\ transport_pc' = [transport_pc EXCEPT ![n] = "panicked"]
               /\ sent' = <<>>
               /\ inbox' = rest
               /\ UNCHANGED <<last_modification_time, reminder_rx>>
          ELSE LET message == Deserialize(input_data) IN
               /\ UNCHANGED transport_pc
               /\ IF message.type = "RequestState"
                  THEN LET reply == Reply(last_modification_time[n])
                           out == <<Datagram(endpoint, Serialize(reply))>>
                       IN /\ sent' = out
                          /\ inbox' = [m \in Nodes |-> rest[m] \o Arrivals(n, out, m)]
                          /\ UNCHANGED <<last_modification_time, reminder_rx>>
                  ELSE /\ sent' = <<>>
                       /\ inbox' = rest
                       /\ last_modification_time' =
                              [last_modification_time EXCEPT ![n] = AdoptState(@, message.state)]
                       /\ reminder_rx' = [reminder_rx EXCEPT ![n] =
                                             IF message.state # None
                                             THEN Append(@, message.state[1])
                                             ELSE @]
    /\ UNCHANGED <<registryVars, rx, other_nodes_connections, next_rid, resources,
                   reminderVars, budget, shutdown_flag>>

\* a datagram that is no Message arrives at node n's socket from elsewhere
MalformedDatagram(n) ==
    /\ budget[n].malformed > 0
    /\ budget' = [budget EXCEPT ![n].malformed = @ - 1]
    /\ \E input_data \in MalformedData :
          inbox' = [inbox EXCEPT ![n] = Append(@, Datagram(Endpoint(0, "ip9"), input_data))]
    /\ sent' = <<>>
    /\ UNCHANGED <<registryVars, rx, transportVars, reminder_rx, reminderVars,
                   shutdown_flag>>

----------------------------------------------------------------------------
(* reminder.rs: the main thread's loop *)

\* reset_state(): Utc::now(), written to the state file and returned
reset_state(now) == now

\* lines 66-75: the button poll, then at most one queued update
LastCleaningTimeAfter(last, button_pushed, now, queue) ==
    LET after_button == IF button_pushed THEN reset_state(now) ELSE last
    IN IF queue # <<>> THEN Head(queue) ELSE after_button

\* lines 82-98: what the iteration writes to the strip, and the blink phase
StripAfter(is_night, current_state, on, colour) ==
    IF is_night /\ on
    THEN [strip |-> BLACK, is_strip_on |-> FALSE]
    ELSE IF ~is_night
    THEN IF current_state = "BlinkingRed"
         THEN IF on
              THEN [strip |-> BLACK, is_strip_on |-> FALSE]
              ELSE [strip |-> RED, is_strip_on |-> TRUE]
         ELSE [strip |-> controller_color(current_state), is_strip_on |-> on]
    ELSE [strip |-> colour, is_strip_on |-> on]

\* lines 100-104
SleepFor(current_state) ==
    IF current_state = "BlinkingRed" THEN BLINK_DELAY ELSE LOOP_DELAY

\* nothing is queued or in flight anywhere
Quiescent ==
    \A m \in Nodes : rx[m] = <<>> /\ inbox[m] = <<>> /\ reminder_rx[m] = <<>>

\* every transport holds a connection to every other node
CompleteTables ==
    \A m \in Nodes : \A o \in Nodes \ {m} :
        /\ FullName(InstanceName[o]) \in DOMAIN other_nodes_connections[m]
        /\ AddrOwner(other_nodes_connections[m][FullName(InstanceName[o])].addr) = o

\* the peer tables are complete and processed, nothing is in flight and no
\* button has been pressed yet
Settled ==
    /\ Quiescent
    /\ CompleteTables
    /\ \A m \in Nodes : iter[m].presses = 0

\* one pass of the while loop, its sleep included.  network_tx.send(..).expect
\* (line 116) panics when the transport thread has ended and dropped the
\* receiving end.
ReminderIteration(n) ==
    /\ reminder_pc[n] = "running"
    /\ ~shutdown_flag[n]
    /\ budget[n].iters > 0
    /\ \E button_pushed \in BOOLEAN, jitter \in 0..MaxJitter :
          LET now == clock[n]
              last == LastCleaningTimeAfter(last_cleaning_time[n], button_pushed, now,
                                            reminder_rx[n])
              is_night == IsNight(now)
              time_elapsed == now - last
              current_state == state_from_duration(time_elapsed)
              out == StripAfter(is_night, current_state, is_strip_on[n], strip[n])
          IN /\ button_pushed => budget[n].press > 0
             /\ budget' = [budget EXCEPT ![n].iters = @ - 1,
                                          ![n].press = IF button_pushed THEN @ - 1 ELSE @]
             /\ IF button_pushed /\ transport_pc[n] # "running"
                THEN /\ last_cleaning_time' = [last_cleaning_time EXCEPT ![n] = reset_state(now)]
                     /\ reminder_pc' = [reminder_pc EXCEPT ![n] = "panicked"]
                     /\ UNCHANGED <<rx, reminder_rx, strip, is_strip_on, iter, clock>>
                ELSE /\ rx' = [rx EXCEPT ![n] =
                                  IF button_pushed
                                  THEN Append(@, CleaningTimeReset(reset_state(now)))
                                  ELSE @]
                     /\ reminder_rx' = [reminder_rx EXCEPT ![n] =
                                           IF @ # <<>> THEN AfterTryRecv(@) ELSE @]
                     /\ last_cleaning_time' = [last_cleaning_time EXCEPT ![n] = last]
                     /\ strip' = [strip EXCEPT ![n] = out.strip]
                     /\ is_strip_on' = [is_strip_on EXCEPT ![n] = out.is_strip_on]
                     /\ iter' = [iter EXCEPT ![n] =
                                    [ran |-> TRUE, button_pushed |-> button_pushed, now |-> now,
                                     drained |-> reminder_rx[n] # <<>>,
                                     before |-> last_cleaning_time[n], settled |-> Settled,
                                     strip_before |-> strip[n],
                                     after_blink |-> /\ iter[n].ran
                                                     /\ ~iter[n].is_night
                                                     /\ iter[n].current_state = "BlinkingRed",
                                     presses |-> iter[n].presses
                                                     + (IF button_pushed THEN 1 ELSE 0),
                                     is_night |-> is_night, time_elapsed |-> time_elapsed,
                                     current_state |-> current_state]]
                     /\ clock' = [clock EXCEPT ![n] =
                                     now + SleepFor(current_state) + jitter]
                     /\ UNCHANGED reminder_pc
    /\ sent' = <<>>
    /\ UNCHANGED <<registryVars, transportVars, inbox, led_manager, shutdown_flag>>

StripKept(colour) == colour

\* line 107: what the strip shows once run has returned
StripAtExit(colour) == BLACK

\* the loop condition read with the flag set, and line 107
ReminderExit(n) ==
    /\ reminder_pc[n] = "running"
    /\ shutdown_flag[n]
    /\ reminder_pc' = [reminder_pc EXCEPT ![n] = "done"]
    /\ strip' = [strip EXCEPT ![n] = StripAtExit(@)]
    /\ sent' = <<>>
    /\ UNCHANGED <<registryVars, rx, transportVars, inbox, reminder_rx,
                   last_cleaning_time, is_strip_on, clock, iter, led_manager, budget,
                   shutdown_flag>>

\* the signal handler sets the process-wide flag
SetShutdown(n) ==
    /\ ~shutdown_flag[n]
    /\ shutdown_flag' = [shutdown_flag EXCEPT ![n] = TRUE]
    /\ sent' = <<>>
    /\ UNCHANGED <<registryVars, rx, transportVars, inbox, reminder_rx, reminderVars, budget>>

----------------------------------------------------------------------------
(* main.rs: the LedManager actor, the variant of the reminder that is driven
   by messages.  It runs on the device of node 1 and takes its ticks and
   presses from node 1's budget. *)

Device == 1

LedTick == [type |-> "Tick"]
BlinkRed(led_on) == [type |-> "BlinkRed", led_on |-> led_on]

\* the period of run_interval (line 126), in units
TICK_INTERVAL == 5 * UnitsPerSec

\* LedManager::create and started: the first Tick is sent right away
NewLedManager(last, now) ==
    [last_cleaning_time |-> last, is_blinking |-> FALSE, strip |-> BLACK,
     mailbox |-> <<LedTick>>, timers |-> <<>>, now |-> now,
     \* a Tick handled a press by day while blinking, and no Tick came since
     cancelled |-> FALSE,
     \* the BlinkRed messages scheduled since that Tick
     rescheduled |-> 0]

\* lines 166-185: the colour a day Tick writes; <<>> when it writes none
TickColour(time_elapsed) ==
    IF time_elapsed < 8 * 3600 * UnitsPerSec THEN <<LIGHT_GREEN>>
    ELSE IF time_elapsed < 12 * 3600 * UnitsPerSec THEN <<DARK_GREEN>>
    ELSE IF time_elapsed < 24 * 3600 * UnitsPerSec THEN <<ORANGE>>
    ELSE IF time_elapsed < 26 * 3600 * UnitsPerSec THEN <<RED>>
    ELSE <<>>

\* Handler<Tick>
HandleTick(lm, button_pushed) ==
    LET is_night == IsNight(lm.now)
        last == IF button_pushed THEN reset_state(lm.now) ELSE lm.last_cleaning_time
        blinking == IF button_pushed THEN FALSE ELSE lm.is_blinking
        colour == TickColour(lm.now - last)
        starts_chain == ~is_night /\ colour = <<>> /\ ~blinking
    IN [lm EXCEPT
           !.last_cleaning_time = last,
           !.is_blinking = IF is_night THEN FALSE
                           ELSE IF colour = <<>> THEN TRUE ELSE blinking,
           !.strip = IF is_night THEN BLACK
                     ELSE IF colour # <<>> THEN colour[1] ELSE @,
           !.mailbox = IF starts_chain THEN Append(Tail(@), BlinkRed(FALSE)) ELSE Tail(@),
           !.cancelled = button_pushed /\ lm.is_blinking /\ ~is_night,
           !.rescheduled = 0]

\* lines 195-214: the colour Handler<BlinkRed> writes
BlinkColour(is_blinking, led_on) ==
    IF ~is_blinking THEN BLACK ELSE IF led_on THEN BLACK ELSE RED

\* Handler<BlinkRed>
HandleBlinkRed(lm, msg) ==
    [lm EXCEPT
        !.strip = BlinkColour(lm.is_blinking, msg.led_on),
        !.mailbox = Tail(@),
        !.timers = IF lm.is_blinking THEN Append(@, BlinkRed(~msg.led_on)) ELSE @,
        !.rescheduled = IF lm.is_blinking /\ lm.cancelled THEN @ + 1 ELSE @]

\* the actor takes the next message of its mailbox
ActorHandle ==
    /\ led_manager.mailbox # <<>>
    /\ LET msg == Head(led_manager.mailbox) IN
       IF msg.type = "Tick"
       THEN \E button_pushed \in BOOLEAN :
               /\ button_pushed => budget[Device].press > 0
               /\ budget' = [budget EXCEPT ![Device].press =
                                 IF button_pushed THEN @ - 1 ELSE @]
               /\ led_manager' = HandleTick(led_manager, button_pushed)
       ELSE /\ led_manager' = HandleBlinkRed(led_manager, msg)
            /\ UNCHANGED budget
    /\ sent' = <<>>
    /\ UNCHANGED <<registryVars, rx, transportVars, inbox, reminder_rx,
                   last_cleaning_time, is_strip_on, strip, clock, reminder_pc, iter,
                   shutdown_flag>>

\* run_interval fires: five seconds have passed, the next Tick is sent
ActorInterval ==
    /\ budget[Device].iters > 0
    /\ budget' = [budget EXCEPT ![Device].iters = @ - 1]
    /\ led_manager' = [led_manager EXCEPT !.mailbox = Append(@, LedTick),
                                          !.now = @ + TICK_INTERVAL]
    /\ sent' = <<>>
    /\ UNCHANGED <<registryVars, rx, transportVars, inbox, reminder_rx,
                   last_cleaning_time, is_strip_on, strip, clock, reminder_pc, iter,
                   shutdown_flag>>

\* a run_later of BLINK_DELAY fires: its BlinkRed is sent
ActorTimer ==
    /\ led_manager.timers # <<>>
    /\ led_manager' = [led_manager EXCEPT !.mailbox = Append(@, Head(led_manager.timers)),
                                          !.timers = Tail(@)]
    /\ sent' = <<>>
    /\ UNCHANGED <<registryVars, rx, transportVars, inbox, reminder_rx,
                   last_cleaning_time, is_strip_on, strip, clock, reminder_pc, iter,
                   budget, shutdown_flag>>

----------------------------------------------------------------------------
(* Specifications *)

NoIteration == [ran |-> FALSE, button_pushed |-> FALSE, now |-> 0, drained |-> FALSE,
                before |-> 0, settled |-> FALSE, presses |-> 0,
                strip_before |-> BLACK, after_blink |-> FALSE,
                is_night |-> FALSE, time_elapsed |-> 0, current_state |-> "LightGreen"]

Seconds(k) == k * UnitsPerSec
Hours(k) == k * 3600 * UnitsPerSec

\* the instants at which a modelled run starts
Noon == LocalInstant(12, 0, 0)
Nightfall == LocalInstant(21, 59, 59)
Daybreak == LocalInstant(6, 59, 59) + 24 * 3600 * UnitsPerSec

NodeInfos == {i \in ResolvedInfos : \E m \in Nodes : i.fullname = FullName(InstanceName[m])}

FaultBudget(disc, press, iters, malformed, refused, lost) ==
    [disc |-> disc, press |-> press, iters |-> iters,
     malformed |-> malformed, refused |-> refused, lost |-> lost]

\* a run in which every datagram decodes and every connect and send succeeds
Budget(disc, press, iters) == FaultBudget(disc, press, iters, 0, 0, 0)

\* the state after construction: the nodes' wall clocks show one of clocks,
\* each node holds a timestamp (loaded, or reset at startup) whose age is one
\* of ages
InitAt(clocks, ages, infos, budgets) ==  \* sets of [Nodes -> instant], [Nodes -> age]
    /\ lan = infos
    /\ cat_reminder_instances = [n \in Nodes |-> EmptyMap]
    /\ registry_pc = [n \in Nodes |-> "running"]
    /\ rx = [n \in Nodes |-> <<>>]
    /\ other_nodes_connections = [n \in Nodes |-> EmptyMap]
    /\ next_rid = [n \in Nodes |-> 1]
    /\ resources = [n \in Nodes |-> {}]
    /\ transport_pc = [n \in Nodes |-> "running"]
    /\ sent = <<>>
    /\ inbox = [n \in Nodes |-> <<>>]
    /\ reminder_rx = [n \in Nodes |-> <<>>]
    /\ clock \in clocks
    /\ \E a \in ages :
          /\ last_cleaning_time = [n \in Nodes |-> clock[n] - a[n]]
          /\ last_modification_time = last_cleaning_time
    /\ is_strip_on = [n \in Nodes |-> FALSE]
    /\ strip = [n \in Nodes |-> BLACK]
    /\ reminder_pc = [n \in Nodes |-> "running"]
    /\ iter = [n \in Nodes |-> NoIteration]
    /\ led_manager = NewLedManager(last_cleaning_time[Device], clock[Device])
    /\ budget = budgets
    /\ shutdown_flag = [n \in Nodes |-> FALSE]

\* the same with all wall clocks in step, at an instant of starts
InitWith(starts, ages, infos, budgets) ==
    InitAt({[n \in Nodes |-> s] : s \in starts}, ages, infos, budgets)

\* ages of the timestamp a node starts with, in units: just reset, and 2.5 s
ProtocolAges == {0, 5}

\* 12:00:00.0 and 12:00:00.5
Init == InitWith({Noon, Noon + 1}, [Nodes -> ProtocolAges], NodeInfos,
                 [n \in Nodes |-> Budget(MaxDisc, MaxPress, MaxIter)])

Next ==
    \/ \E n \in Nodes, info \in ResolvedInfos : ServiceResolved(n, info)
    \/ \E n \in Nodes, name \in FullNames : ServiceRemoved(n, SERVICE_TYPE, name)
    \/ \E n \in Nodes : Tick(n)
    \/ \E n \in Nodes : Message(n)
    \/ \E n \in Nodes : ReminderIteration(n)

Spec == Init /\ [][Next]_vars

\* the system with the shutdown flag being set at some point
NextShutdown ==
    \/ Next
    \/ \E n \in Nodes : SetShutdown(n)
    \/ \E n \in Nodes : OtherServiceEvent(n)
    \/ \E n \in Nodes : ReminderExit(n)


\* Bootstrap: node 1 (A) holds T_A, node 2 (B) starts without a state file and
\* holds its startup default T_B; nobody presses a button
T_A == Noon - 4
T_B == Noon
InitBoot == InitWith({Noon}, {(1 :> Noon - T_A) @@ (2 :> Noon - T_B)}, NodeInfos,
                     [n \in Nodes |-> Budget(MaxDisc, 0, MaxIter)])
SpecBoot == InitBoot /\ [][Next]_vars

\* Peer tables: node 1's registry sees the whole LAN come and go
InitPeers == InitWith({Noon + 1}, {[n \in Nodes |-> 0]}, ResolvedInfos,
                      (1 :> Budget(MaxDisc + 2, MaxPress, 1)) @@ (2 :> Budget(MaxDisc, 0, 1)))
SpecPeers == InitPeers /\ [][Next]_vars

\* Night: node 1's loop starts one second before 22:00, or one second before
\* 07:00, with a timestamp just reset, 10 s, 25.5 s or 30 h old; node 2 holds a
\* timestamp 30 h old and only answers
ThirtyHours == 30 * 3600 * UnitsPerSec
NightAges == {0, 20, 51, ThirtyHours}
InitNight == InitWith({Nightfall, Daybreak},
                      {a \in [Nodes -> NightAges] : a[2] = ThirtyHours}, NodeInfos,
                      (1 :> Budget(MaxDisc, MaxPress, MaxIter + 1))
                          @@ (2 :> Budget(MaxDisc, 0, 0)))
SpecNight == InitNight /\ [][Next]_vars

\* Shutdown: both nodes freshly reset at noon, nobody presses a button, each
\* registry gets up to two discovery events, before or after the flag is set
InitShutdown == InitWith({Noon}, {[n \in Nodes |-> 0]}, NodeInfos,
                         [n \in Nodes |-> Budget(MaxDisc + 1, 0, 1)])
SpecShutdown == InitShutdown /\ [][NextShutdown]_vars

\* Faults: node 1 sees the whole LAN and is the one whose datagrams, connects
\* and sends can go wrong
InitFaults == InitWith({Noon}, {[n \in Nodes |-> 0]}, ResolvedInfos,
                       (1 :> FaultBudget(MaxDisc + 1, MaxPress, 1,
                                         MaxMalformed, MaxRefused, MaxLost))
                           @@ (2 :> Budget(MaxDisc, 0, 1)))
NextFaults ==
    \/ Next
    \/ \E n \in Nodes : MalformedDatagram(n)
SpecFaults == InitFaults /\ [][NextFaults]_vars

\* Registry: besides node 2 the LAN advertises a third device whose instance
\* name begins with node 1's; node 1's registry sees both come and go
NamesakeInfo == [fullname |-> FullName(InstanceName[1] \o <<"i">>), addresses |-> <<"ip7">>]
RegistryInfos == {i \in NodeInfos : i.fullname = FullName(InstanceName[2])} \cup {NamesakeInfo}
InitRegistry == InitWith({Noon}, {[n \in Nodes |-> 0]}, RegistryInfos,
                         (1 :> Budget(MaxDisc + 2, 0, 1)) @@ (2 :> Budget(MaxDisc, 0, 1)))
NextRegistry ==
    \/ Next
    \/ \E n \in Nodes : ServiceResolved(n, NamesakeInfo)
    \/ \E n \in Nodes : ServiceRemoved(n, SERVICE_TYPE, NamesakeInfo.fullname)
SpecRegistry == InitRegistry /\ [][NextRegistry]_vars

\* Skew: node 2's wall clock is three seconds ahead of node 1's; both start
\* freshly reset, node 2 can press its button
ClockSkew == Seconds(3)
InitSkew == InitAt({(1 :> Noon) @@ (2 :> Noon + ClockSkew)}, {[n \in Nodes |-> 0]},
                   NodeInfos,
                   (1 :> Budget(MaxDisc, 0, MaxIter)) @@ (2 :> Budget(MaxDisc, MaxPress, 1)))
SpecSkew == InitSkew /\ [][Next]_vars

\* Exit: the loops run on timestamps just reset, 10 s and 30 s old, and the
\* flag is set before, between or after their iterations
ExitAges == {0, Seconds(10), Seconds(30)}
InitExit == InitWith({Noon}, [Nodes -> ExitAges], NodeInfos,
                     [n \in Nodes |-> Budget(0, 0, MaxIter)])
NextExit ==
    \/ \E n \in Nodes : ReminderIteration(n)
    \/ \E n \in Nodes : SetShutdown(n)
    \/ \E n \in Nodes : ReminderExit(n)
SpecExit == InitExit /\ [][NextExit]_vars

\* Actor: the LedManager starts one second before noon or 22:00, on a
\* timestamp just reset or 30 h old
InitActor == InitWith({Noon, Nightfall}, [Nodes -> {0, ThirtyHours}], NodeInfos,
                      (1 :> Budget(0, MaxPress, MaxIter)) @@ (2 :> Budget(0, 0, 0)))
NextActor ==
    \/ ActorHandle
    \/ ActorInterval
    \/ ActorTimer
SpecActor == InitActor /\ [][NextActor]_vars

\* Bands: each loop runs one iteration at noon, without a press, on a timestamp
\* whose age is at one of the band limits, counted in seconds and in hours
BandAges == {Seconds(k) : k \in {0, 7, 8, 11, 12, 23, 24, 25, 26}}
                \cup {Hours(k) : k \in {7, 8, 12, 24, 26, 30}}
InitBand == InitWith({Noon}, [Nodes -> BandAges], NodeInfos,
                     [n \in Nodes |-> Budget(0, 0, 1)])
NextBand == \E n \in Nodes : ReminderIteration(n)
SpecBand == InitBand /\ [][NextBand]_vars

----------------------------------------------------------------------------
(* Claims *)

Range(m) == {m[k] : k \in DOMAIN m}

\* node n handled a datagram in this step
Handled(n) == Len(inbox'[n]) < Len(inbox[n])
\* node n's tick took a control event off its queue in this step
Drained(n) == Len(rx'[n]) < Len(rx[n])
\* node n's reminder loop ran an iteration in this step
Iterated(n) == budget'[n].iters < budget[n].iters

\* C1: Bootstrap. Node B (2) starts on its startup default T_B, node A (1)
\* holds T_A, each registry has reported the other and nobody presses a
\* button: once everything sent has been handled, B's last_modification_time
\* and last_cleaning_time are T_A.
C1_BootstrapAdoptsPeer ==
    (Quiescent /\ CompleteTables)
        => (last_modification_time[2] = T_A /\ last_cleaning_time[2] = T_A)

\* C2: Convergence. With complete peer tables, once nothing is queued or in
\* flight any more, all nodes hold one and the same timestamp, in the
\* transport and in the reminder.
C2_Convergence ==
    (Quiescent /\ CompleteTables)
        => \A n, m \in Nodes :
              /\ last_cleaning_time[n] = last_cleaning_time[m]
              /\ last_modification_time[n] = last_modification_time[m]
              /\ last_cleaning_time[n] = last_modification_time[n]


\* C3: Last write wins. A datagram that decodes to UpdateState(Some(ts))
\* makes ts the transport's last_modification_time and queues ts for the
\* reminder, and the reminder iteration that takes ts off its queue ends with
\* last_cleaning_time = ts, whatever the values were before.
C3_LastWriteWins ==
    [][\A n \in Nodes :
          /\ (Handled(n) /\ Head(inbox[n]).data[1] = 1 /\ Head(inbox[n]).data[2] = 1)
                => LET ts == Head(inbox[n]).data[3] * UnitsPerSec
                   IN /\ last_modification_time'[n] = ts
                      /\ reminder_rx'[n] = Append(reminder_rx[n], ts)
          /\ (Iterated(n) /\ reminder_rx[n] # <<>>)
                => /\ last_cleaning_time'[n] = Head(reminder_rx[n])
                   /\ reminder_rx'[n] = Tail(reminder_rx[n])]_vars

\* an iteration took an update older than the timestamp it replaced, and the
\* transport holds that older timestamp too
C3_OlderAdopted ==
    \E n \in Nodes :
        /\ iter[n].drained
        /\ last_cleaning_time[n] < iter[n].before
        /\ last_modification_time[n] = last_cleaning_time[n]

\* C4: In every iteration whose button poll reads pressed, elapsed is 0 and
\* the band is the one of 0: the timestamp used is the press's.
C4_PressResetsElapsed ==
    \A n \in Nodes :
        (iter[n].ran /\ iter[n].button_pushed)
            => /\ last_cleaning_time[n] = iter[n].now
               /\ iter[n].time_elapsed = 0
               /\ iter[n].current_state = "LightGreen"

\* a datagram of the last step is an UpdateState
UpdateSent == \E i \in 1..Len(sent') : sent'[i].data[1] = 1

\* C5: A press queues exactly one reset notification (an iteration without a
\* press none); the tick that takes CleaningTimeReset(ts) off the queue sets
\* last_modification_time to ts and sends exactly one UpdateState(Some(ts)) to
\* the endpoint of every identity of the connection table, and nothing else;
\* any other step sends an UpdateState only as the one reply to a RequestState.
C5_OneBroadcastPerPress ==
    [][/\ \A n \in Nodes :
             /\ Iterated(n)
                   => rx'[n] = IF iter'[n].button_pushed
                               THEN Append(rx[n], CleaningTimeReset(iter'[n].now))
                               ELSE rx[n]
             /\ (Drained(n) /\ Head(rx[n]).type = "CleaningTimeReset")
                   => LET ts == Head(rx[n]).time
                          connections == other_nodes_connections[n]
                      IN /\ last_modification_time'[n] = ts
                         /\ Len(sent') = Cardinality(DOMAIN connections)
                         /\ \A k \in DOMAIN connections :
                               Cardinality({i \in 1..Len(sent') :
                                               sent'[i].endpoint = connections[k]}) = 1
                         /\ \A i \in 1..Len(sent') :
                               /\ sent'[i].endpoint \in Range(connections)
                               /\ sent'[i].data = Serialize(UpdateState(Some(ts)))
       /\ (UpdateSent /\ ~\E n \in Nodes : Drained(n) /\ Head(rx[n]).type = "CleaningTimeReset")
             => \E n \in Nodes :
                   /\ Handled(n)
                   /\ Head(inbox[n]).data = Serialize(RequestState)
                   /\ Len(sent') = 1
                   /\ sent'[1].endpoint = Head(inbox[n]).endpoint]_vars

\* a reset was broadcast to a table of two identities
C5_BroadcastToTwo ==
    \E n \in Nodes :
        /\ Cardinality(DOMAIN other_nodes_connections[n]) = 2
        /\ Len(sent) = 2
        /\ \A i \in 1..2 : sent[i].data = Serialize(UpdateState(Some(last_modification_time[n])))
        /\ iter[n].button_pushed

\* C6: A single press at one node, made with complete and processed peer
\* tables and nothing in flight: once everything has been handled, every
\* peer's last_cleaning_time is the press's timestamp T.
C6_PressReachesPeers ==
    \A n \in Nodes :
        (/\ iter[n].button_pushed /\ iter[n].settled /\ iter[n].presses = 1
         /\ \A m \in Nodes \ {n} : iter[m].presses = 0
         /\ Quiescent /\ CompleteTables)
            => \A m \in Nodes \ {n} : last_cleaning_time[m] = iter[n].now

\* a RequestState is among the datagrams of the last step
RequestSent == \E i \in 1..Len(sent') : sent'[i].data = Serialize(RequestState)

\* C7: A RequestState is sent exactly in the tick whose NodeListUpdated takes
\* the connection table from empty to non-empty, and then it is the only
\* datagram and goes to an endpoint of the resulting table.
C7_BootstrapRequest ==
    [][/\ RequestSent
             <=> \E n \in Nodes :
                    /\ Drained(n) /\ Head(rx[n]).type = "NodeListUpdated"
                    /\ DOMAIN other_nodes_connections[n] = {}
                    /\ DOMAIN other_nodes_connections'[n] # {}
       /\ RequestSent
             => /\ Len(sent') = 1
                /\ \E n \in Nodes :
                      Drained(n) /\ sent'[1].endpoint \in Range(other_nodes_connections'[n])]_vars

\* a node whose table went from empty to one peer has just sent its request
C7_OneRequestSent ==
    \E n \in Nodes :
        /\ Cardinality(DOMAIN other_nodes_connections[n]) = 1
        /\ Len(sent) = 1
        /\ sent[1].data = Serialize(RequestState)
        /\ sent[1].endpoint \in Range(other_nodes_connections[n])

\* C8: Processing NodeListUpdated(table) keeps the endpoint of every identity
\* that was connected and is in table, and removes exactly the connected
\* identities that table lacks.
C8_TableUpdateFrame ==
    [][\A n \in Nodes :
          (Drained(n) /\ Head(rx[n]).type = "NodeListUpdated")
              => LET table == Head(rx[n]).list
                     old == other_nodes_connections[n]
                     new == other_nodes_connections'[n]
                 IN /\ \A k \in (DOMAIN old) \cap (DOMAIN table) :
                          k \in DOMAIN new /\ new[k] = old[k]
                    /\ (DOMAIN old) \ (DOMAIN new) = (DOMAIN old) \ (DOMAIN table)]_vars

\* a peer was added next to an existing connection, which kept its endpoint
C8_PeerAddedNextToOther ==
    \E n \in Nodes : \E k1, k2 \in DOMAIN other_nodes_connections[n] :
        /\ k1 # k2
        /\ other_nodes_connections[n][k1].rid = 1
        /\ other_nodes_connections[n][k2].rid > 1

\* C9: After every iteration evaluated at night the strip is black.
C9_NightIsBlack ==
    \A n \in Nodes : (iter[n].ran /\ iter[n].is_night) => strip[n] = BLACK

\* C10: With a timestamp at least 30 h old, every night iteration leaves the
\* strip black, and every day iteration in the BlinkingRed band writes red or
\* black, the other of the two than the iteration before it when that one was
\* a day iteration in the BlinkingRed band too.
C10_NightThenBlink ==
    \A n \in Nodes :
        (iter[n].ran /\ NumSeconds(iter[n].time_elapsed) >= 30 * 3600)
            => /\ iter[n].is_night => strip[n] = BLACK
               /\ (~iter[n].is_night /\ iter[n].current_state = "BlinkingRed")
                     => /\ strip[n] \in {RED, BLACK}
                        /\ iter[n].after_blink => strip[n] # iter[n].strip_before

\* the band the contract gives an elapsed duration, and the order of the bands
ClaimedBand(d) ==
    IF d < Hours(8) THEN "LightGreen"
    ELSE IF d < Hours(12) THEN "DarkGreen"
    ELSE IF d < Hours(24) THEN "Orange"
    ELSE IF d < Hours(26) THEN "Red"
    ELSE "BlinkingRed"

Escalation(state) ==
    CASE state = "LightGreen" -> 0
      [] state = "DarkGreen" -> 1
      [] state = "Orange" -> 2
      [] state = "Red" -> 3
      [] state = "BlinkingRed" -> 4

\* C11: For every elapsed duration d >= 0 an iteration computed, the band is
\* LightGreen below 8 h, DarkGreen from 8 h to below 12 h, Orange from 12 h to
\* below 24 h, Red from 24 h to below 26 h and BlinkingRed from 26 h on, and
\* of two durations the larger never has the lower band.
C11_BandOfDuration ==
    /\ \A n \in Nodes :
          (iter[n].ran /\ iter[n].time_elapsed >= 0)
              => iter[n].current_state = ClaimedBand(iter[n].time_elapsed)
    /\ \A n, m \in Nodes :
          (/\ iter[n].ran /\ iter[m].ran
           /\ 0 <= iter[n].time_elapsed /\ iter[n].time_elapsed <= iter[m].time_elapsed)
              => Escalation(iter[n].current_state) <= Escalation(iter[m].current_state)

\* C12: Wire round trip. RequestState decodes from its encoding, and every
\* UpdateState(Some(t)) a node puts on the wire, the broadcast of a local
\* reset's timestamp and the reply with the current timestamp, decodes to
\* UpdateState(Some(t)) again.
C12_WireRoundTrip ==
    [][/\ Deserialize(Serialize(RequestState)) = RequestState
       /\ \A n \in Nodes :
             /\ (Drained(n) /\ Head(rx[n]).type = "CleaningTimeReset")
                   => \A i \in 1..Len(sent') :
                         Deserialize(sent'[i].data) = UpdateState(Some(Head(rx[n]).time))
             /\ (Handled(n) /\ Head(inbox[n]).data = Serialize(RequestState))
                   => \A i \in 1..Len(sent') :
                         Deserialize(sent'[i].data)
                             = UpdateState(Some(last_modification_time[n]))]_vars

\* node n's registry handled a resolved or removed event in this step
Discovered(n) == budget'[n].disc < budget[n].disc

\* C13: Cooperative shutdown. With the shutdown flag set, the reminder loop
\* runs no further iteration, a tick stops the transport's node, and the
\* registry leaves its loop (and deregisters) at the next event it handles,
\* whether that is a resolved, a removed or any other event.
C13_CooperativeShutdown ==
    [][\A n \in Nodes :
          shutdown_flag[n]
              => /\ ~Iterated(n)
                 /\ Tick(n) => transport_pc'[n] = "stopped"
                 /\ (Discovered(n) \/ OtherServiceEvent(n)) => registry_pc'[n] = "done"]_vars

\* C16: A resolved or removed event that reaches the registry after the
\* shutdown flag is set, also after the transport has stopped and dropped the
\* receiving end of the event queue, does not crash the registry thread.
C16_RegistrySurvivesShutdown ==
    \A n \in Nodes : shutdown_flag[n] => registry_pc[n] # "panicked"

\* C14: Handling a datagram that does not decode leaves the transport's loop
\* running, its timestamp and connection table as they were, and queues
\* nothing for the reminder.
C14_MalformedDropped ==
    [][\A n \in Nodes :
          (Handled(n) /\ ~WellFormed(Head(inbox[n]).data))
              => /\ transport_pc'[n] = "running"
                 /\ last_modification_time'[n] = last_modification_time[n]
                 /\ other_nodes_connections'[n] = other_nodes_connections[n]
                 /\ reminder_rx'[n] = reminder_rx[n]]_vars

\* C15: A tick that handles a control event never ends in a panic, whether a
\* connect or a send of it fails: of a NodeListUpdated at most the one peer
\* whose connect failed is missing from the table afterwards, and a reset is
\* sent to every peer of the table.
C15_FailuresDoNotStopLoop ==
    [][\A n \in Nodes :
          Drained(n)
              => /\ transport_pc'[n] # "panicked"
                 /\ Head(rx[n]).type = "NodeListUpdated"
                       => Cardinality((DOMAIN Head(rx[n]).list)
                                          \ (DOMAIN other_nodes_connections'[n])) <= 1
                 /\ Head(rx[n]).type = "CleaningTimeReset"
                       => \A k \in DOMAIN other_nodes_connections[n] :
                             \E i \in 1..Len(sent') :
                                sent'[i].endpoint = other_nodes_connections[n][k]]_vars

\* C17: The control queue loses at most one event per step, and only to a
\* tick, which takes its head; a datagram is handled by the message handler,
\* which takes the head of the arrivals and leaves the control queue alone,
\* so that no step handles a datagram and a control event.
C17_OneControlEventPerTick ==
    [][\A n \in Nodes :
          /\ Len(rx'[n]) >= Len(rx[n]) - 1
          /\ Drained(n) => (Tick(n) /\ rx'[n] = Tail(rx[n]))
          /\ Handled(n)
                => /\ Message(n)
                   /\ ~Drained(n)
                   /\ rx'[n] = rx[n]
                   /\ SubSeq(inbox'[n], 1, Len(inbox[n]) - 1) = Tail(inbox[n])]_vars

\* a tick has handled the first NodeListUpdated (its RequestState is out)
\* while later control events are still queued
C17_OneTakenOthersWait ==
    \E n \in Nodes :
        /\ Len(sent) = 1
        /\ sent[1].data = Serialize(RequestState)
        /\ sent[1].endpoint \in Range(other_nodes_connections[n])
        /\ Len(rx[n]) >= 2

\* the timestamps of the reset notifications of a control queue, in order
ResetTimes(queue) ==
    LET resets == SelectSeq(queue, LAMBDA e : e.type = "CleaningTimeReset")
    IN [i \in 1..Len(resets) |-> resets[i].time]

\* C18: A poll that finds several timestamp items queued observes the latest
\* one and discards the older ones: an iteration that finds two or more
\* updates ends on the last one with none left queued, and a tick that takes
\* a reset notification with more of them queued behind it adopts the last
\* one and leaves none of them queued.
C18_LatestItemObserved ==
    [][\A n \in Nodes :
          /\ (Iterated(n) /\ Len(reminder_rx[n]) >= 2)
                => /\ last_cleaning_time'[n] = reminder_rx[n][Len(reminder_rx[n])]
                   /\ reminder_rx'[n] = <<>>
          /\ (Drained(n) /\ Head(rx[n]).type = "CleaningTimeReset"
                /\ Len(ResetTimes(rx[n])) >= 2)
                => /\ last_modification_time'[n]
                         = ResetTimes(rx[n])[Len(ResetTimes(rx[n]))]
                   /\ ResetTimes(rx'[n]) = <<>>]_vars

\* C19: Handling a RequestState sends exactly one datagram, the encoding of
\* UpdateState(Some(last_modification_time)), to the endpoint the request came
\* from, where alone it arrives, and leaves the timestamp, the connection
\* table and the reminder's queue as they were.
C19_RequestStateReply ==
    [][\A n \in Nodes :
          (Handled(n) /\ Head(inbox[n]).data = Serialize(RequestState))
              => LET endpoint == Head(inbox[n]).endpoint
                     data == Serialize(UpdateState(Some(last_modification_time[n])))
                 IN /\ sent' = <<Datagram(endpoint, data)>>
                    /\ \A m \in Nodes \ {n} :
                          inbox'[m] = IF m = AddrOwner(endpoint.addr)
                                      THEN Append(inbox[m],
                                                  Datagram(Endpoint(0, NodeIp[n]), data))
                                      ELSE inbox[m]
                    /\ inbox'[n] = Tail(inbox[n])
                    /\ last_modification_time'[n] = last_modification_time[n]
                    /\ other_nodes_connections'[n] = other_nodes_connections[n]
                    /\ reminder_rx'[n] = reminder_rx[n]]_vars

\* a reply has just gone out: one UpdateState with the sender's timestamp, to
\* the endpoint of a received message, and it waits at the requester
C19_ReplyArrived ==
    \E n \in Nodes : \E m \in Nodes \ {n} :
        /\ Len(sent) = 1
        /\ sent[1] = Datagram(Endpoint(0, NodeIp[m]),
                              Serialize(UpdateState(Some(last_modification_time[n]))))
        /\ inbox[m] # <<>>
        /\ inbox[m][Len(inbox[m])].data = sent[1].data
        /\ inbox[m][Len(inbox[m])].endpoint = Endpoint(0, NodeIp[n])

\* C20: After a tick has processed NodeListUpdated(table), every identity of
\* the connection table is an identity of table, and no identity has more
\* than one connection open at the node's network controller.
C20_PeerTableInvariant ==
    [][\A n \in Nodes :
          (Drained(n) /\ Head(rx[n]).type = "NodeListUpdated"
              /\ transport_pc'[n] # "panicked")
              => /\ DOMAIN other_nodes_connections'[n] \subseteq DOMAIN Head(rx[n]).list
                 /\ \A r1, r2 \in resources'[n] : r1.key = r2.key => r1 = r2]_vars

\* C21: After a tick has processed NodeListUpdated(table), every identity of
\* table with at least one address has a connection, and it is a connection
\* to one of the addresses table lists for it.
C21_ConnectedToCurrentAddress ==
    [][\A n \in Nodes :
          (Drained(n) /\ Head(rx[n]).type = "NodeListUpdated"
              /\ transport_pc'[n] # "panicked")
              => LET table == Head(rx[n]).list
                     connections == other_nodes_connections'[n]
                 IN \A k \in DOMAIN table :
                       table[k] # <<>>
                           => /\ k \in DOMAIN connections
                              /\ connections[k].addr \in Range(table[k])]_vars

\* C22: A resolved event of a service other than the node's own replaces that
\* identity's addresses in the registry's table, a removed event deletes the
\* entry, and either queues exactly one NodeListUpdated carrying the table as
\* it is afterwards; nothing else queues a NodeListUpdated, and no queued
\* table holds the node's own identity.
C22_RegistryEmitsFullTable ==
    [][\A n \in Nodes :
          LET emitted == rx'[n] = Append(rx[n], NodeListUpdated(cat_reminder_instances'[n]))
          IN /\ \A info \in RegistryInfos :
                   (ServiceResolved(n, info) /\ info.fullname # FullName(InstanceName[n]))
                       => /\ cat_reminder_instances'[n]
                                = Insert(cat_reminder_instances[n], info.fullname,
                                         info.addresses)
                          /\ emitted
             /\ \A info \in RegistryInfos :
                   ServiceRemoved(n, SERVICE_TYPE, info.fullname)
                       => /\ cat_reminder_instances'[n]
                                = Remove(cat_reminder_instances[n], info.fullname)
                          /\ emitted
             /\ (Len(rx'[n]) > Len(rx[n]) /\ rx'[n][Len(rx'[n])].type = "NodeListUpdated")
                   => Discovered(n) /\ emitted
             /\ \A i \in 1..Len(rx'[n]) :
                   rx'[n][i].type = "NodeListUpdated"
                       => FullName(InstanceName[n]) \notin DOMAIN rx'[n][i].list]_vars

\* C23: Within one node, whenever no reset notification is queued for the
\* transport and no update is queued for the reminder, the transport's
\* last_modification_time is the reminder's last_cleaning_time.
C23_NodeTimestampsAgree ==
    \A n \in Nodes :
        (ResetTimes(rx[n]) = <<>> /\ reminder_rx[n] = <<>>)
            => last_modification_time[n] = last_cleaning_time[n]

\* C24: Every iteration whose elapsed duration is below 8 h, negative ones
\* included, computes the band LightGreen and does not blink: it leaves the
\* blink phase off and writes no red.
C24_FreshBelowEightHours ==
    \A n \in Nodes :
        (iter[n].ran /\ iter[n].time_elapsed < Hours(8))
            => /\ iter[n].current_state = "LightGreen"
               /\ ~is_strip_on[n]
               /\ strip[n] # RED

\* C25: The step in which the reminder loop ends on the shutdown flag leaves
\* the strip black, and once the loop has ended nothing is written to the
\* strip and no iteration runs.
C25_BlackAtExit ==
    [][\A n \in Nodes :
          /\ (reminder_pc[n] = "running" /\ reminder_pc'[n] = "done")
                => shutdown_flag[n] /\ strip'[n] = BLACK
          /\ reminder_pc[n] = "done"
                => /\ strip'[n] = BLACK
                   /\ ~Iterated(n)
                   /\ reminder_pc'[n] = "done"]_vars

\* a loop has ended that was in the BlinkingRed band with red on the strip
C25_ExitWhileRed ==
    \E n \in Nodes :
        /\ reminder_pc[n] = "done"
        /\ iter[n].ran /\ iter[n].current_state = "BlinkingRed"
        /\ is_strip_on[n]
        /\ strip[n] = BLACK

\* the BlinkRed messages in the mailbox and on timers
PendingBlinks(lm) ==
    Len(SelectSeq(lm.mailbox, LAMBDA m : m.type = "BlinkRed")) + Len(lm.timers)

\* C26: After a Tick that handled a press by day while the blink chain was
\* active, the strip shows the colour that Tick wrote (LightGreen) until the
\* next Tick is handled, and no BlinkRed is scheduled in that time.
C26_CancelledChainIsSilent ==
    led_manager.cancelled
        => /\ led_manager.strip = LIGHT_GREEN
           /\ led_manager.rescheduled = 0

====
